---- MODULE Spec2Model ----
(***************************************************************************)
(* Model of ownership/src/main.rs: the in-memory CSV table (CSVParser),    *)
(* its load / lookup / update / write / display operations and the fixed   *)
(* orchestration script CSVProcessor::process_csv.                         *)
(*                                                                         *)
(* A Rust String and the text of a file are sequences of one-character     *)
(* strings.  A Row is a sequence of Strings and the table a sequence of    *)
(* Rows.  Rust indices are zero-based, TLA+ sequences one-based: cell      *)
(* (r, c) of the code is data[r + 1][c + 1].                               *)
(***************************************************************************)
EXTENDS Integers, Sequences, FiniteSets, TLC

\* ------------------------------------------------------------- bounds
MaxFileLen == 2   \* longest source file of the table-level specification
MaxSrcLen == 6    \* longest source file of the driver and round-trip runs
MaxCalls == 3     \* calls made on the table per run

\* Characters that matter to the code: a data character, the field
\* separator, and the two characters BufRead::lines treats specially.
Alphabet == {"a", ",", "\n", "\r"}

Strs(n) == UNION {[1..k -> Alphabet] : k \in 0..n}

\* Values handed to update_cell: empty, plain, with a comma, with a line
\* terminator.
Values == {<<>>, <<"a">>, <<",">>, <<"a", ",">>, <<"\n">>, <<"\r">>}

\* ------------------------------------------------------- file system
SrcPath == "ownership/data.csv"
DestPath == "ownership/updated_data.csv"
Paths == {SrcPath, DestPath}

\* Content of a path at which no file exists.
NoFile == <<"ENOENT">>

\* The 3x3 file of the documented scenario.
ExampleFile ==
    <<"a", ",", "b", ",", "c", "\n",
      "d", ",", "e", ",", "f", "\n",
      "g", ",", "h", ",", "i", "\n">>

\* ------------------------------------------------------ return values
Ok == [kind |-> "Ok"]
Err(e) == [kind |-> "Err", error |-> e]
None == [kind |-> "None"]
Some(x) == [kind |-> "Some", val |-> x]

IoError == Err(<<"io::Error">>)
InvalidRow(r) == Err(<<"Invalid row index: ", r>>)
InvalidCol(c) == Err(<<"Invalid column index: ", c>>)

\* I/O outcomes the environment may impose on one call.
NoFail == <<>>
FailOpen == <<"open">>
FailRead(m) == <<"read", m>>       \* the read after m lines were consumed fails
FailCreate == <<"create">>
FailWrite(m) == <<"write", m>>     \* the writeln! after m rows were written fails

\* -------------------------------------------------------- text helpers
HasChar(s, ch) == \E i \in 1..Len(s) : s[i] = ch

FirstIndex(s, ch) == CHOOSE i \in 1..Len(s) : s[i] = ch /\ \A j \in 1..(i - 1) : s[j] # ch

\* BufRead::lines: each item is the text up to the next "\n"; the "\n" and
\* a "\r" right before it are dropped; a final unterminated piece is a line;
\* nothing left to read ends the iteration.
RECURSIVE lines(_)
lines(text) ==
    IF text = <<>> THEN <<>>
    ELSE IF ~HasChar(text, "\n") THEN <<text>>
    ELSE LET i == FirstIndex(text, "\n")
             raw == SubSeq(text, 1, i - 1)
             line == IF raw # <<>> /\ raw[Len(raw)] = "\r"
                     THEN SubSeq(raw, 1, Len(raw) - 1)
                     ELSE raw
         IN <<line>> \o lines(SubSeq(text, i + 1, Len(text)))

\* Faulty variant of split: an empty piece at the end of the line is dropped.
RECURSIVE split_skip_empty(_)
split_skip_empty(s) ==
    IF s = <<>> THEN <<>>
    ELSE IF ~HasChar(s, ",") THEN <<s>>
    ELSE LET i == FirstIndex(s, ",")
         IN <<SubSeq(s, 1, i - 1)>> \o split_skip_empty(SubSeq(s, i + 1, Len(s)))

\* line.split(",").map(|s| s.to_string()).collect(): the pieces between
\* commas; n commas give n + 1 pieces, the empty string gives one empty piece.
RECURSIVE split(_)
split(s) ==
    IF ~HasChar(s, ",") THEN <<s>>
    ELSE LET i == FirstIndex(s, ",")
         IN <<SubSeq(s, 1, i - 1)>> \o split(SubSeq(s, i + 1, Len(s)))

\* row.join(","): the cells with one comma between neighbours.
RECURSIVE join(_)
join(row) ==
    IF row = <<>> THEN <<>>
    ELSE IF Len(row) = 1 THEN row[1]
    ELSE row[1] \o <<",">> \o join(Tail(row))

NumRows(d) == Len(d)

\* Longest row of the table, 0 for the empty table.
Width(d) == IF d = <<>> THEN 0
            ELSE CHOOSE w \in {Len(d[i]) : i \in 1..Len(d)} :
                     \A i \in 1..Len(d) : Len(d[i]) <= w

\* ------------------------------------------------------ CSVParser
\* CSVParser::new
new == <<>>

\* The for loop of parse_csv, having consumed i lines.
RECURSIVE parse_loop(_, _, _, _)
parse_loop(d, ls, i, fail) ==
    IF fail = FailRead(i) THEN [data |-> d, ret |-> IoError]
    ELSE IF i = Len(ls) THEN [data |-> d, ret |-> Ok]
    ELSE parse_loop(Append(d, split(ls[i + 1])), ls, i + 1, fail)

\* Faulty variant of parse_csv: the table is emptied before the lines are read.
parse_csv_clears(d, file, fail) ==
    IF file = NoFile \/ fail = FailOpen
    THEN [data |-> d, ret |-> IoError]
    ELSE parse_loop(<<>>, lines(file), 0, fail)

\* Faulty variant of parse_csv: a failed read restores the rows held before.
parse_csv_rollback(d, file, fail) ==
    IF file = NoFile \/ fail = FailOpen
    THEN [data |-> d, ret |-> IoError]
    ELSE LET res == parse_loop(d, lines(file), 0, fail)
         IN IF res.ret = Ok THEN res ELSE [data |-> d, ret |-> res.ret]

\* File::open fails when nothing is at the path (or the environment refuses);
\* otherwise every line is read, split and pushed, the first failing read
\* returning early through the ? operator.
parse_csv(d, file, fail) ==
    IF file = NoFile \/ fail = FailOpen
    THEN [data |-> d, ret |-> IoError]
    ELSE parse_loop(d, lines(file), 0, fail)

\* Vec::get / slice::get
vec_get(v, i) == IF i < Len(v) THEN Some(v[i + 1]) ELSE None

\* Faulty variant of get_row: the index one past the end yields the last row.
get_row_inclusive(d, row_index) == IF row_index <= Len(d) /\ d # <<>>
                           THEN Some(d[IF row_index = Len(d) THEN row_index ELSE row_index + 1])
                           ELSE None

\* self.data.get(row_index)
get_row(d, row_index) == vec_get(d, row_index)

\* Faulty variant of get_cell: the column is checked against the first row.
get_cell_table_width(d, row_index, col_index) ==
    IF row_index < Len(d) /\ col_index < Len(d[1])
    THEN (IF col_index < Len(d[row_index + 1])
          THEN Some(d[row_index + 1][col_index + 1])
          ELSE Some(<<>>))
    ELSE None

\* self.data.get(row_index).and_then(|row| row.get(col_index))
get_cell(d, row_index, col_index) ==
    LET row == vec_get(d, row_index)
    IN IF row.kind = "None" THEN None ELSE vec_get(row.val, col_index)

\* Faulty variant of update_cell: the column is checked before the row.
update_cell_swapped(d, row_index, col_index, value) ==
    IF col_index >= Width(d)
    THEN [data |-> d, ret |-> InvalidCol(col_index)]
    ELSE IF row_index >= Len(d)
    THEN [data |-> d, ret |-> InvalidRow(row_index)]
    ELSE IF col_index >= Len(d[row_index + 1])
    THEN [data |-> d, ret |-> InvalidCol(col_index)]
    ELSE [data |-> [d EXCEPT ![row_index + 1][col_index + 1] = value], ret |-> Ok]

\* Faulty variant of update_cell: a column past the end grows the row.
update_cell_push(d, row_index, col_index, value) ==
    IF row_index >= Len(d)
    THEN [data |-> d, ret |-> InvalidRow(row_index)]
    ELSE IF col_index >= Len(d[row_index + 1])
    THEN [data |-> [d EXCEPT ![row_index + 1] = Append(@, value)],
          ret |-> InvalidCol(col_index)]
    ELSE [data |-> [d EXCEPT ![row_index + 1][col_index + 1] = value], ret |-> Ok]

\* Faulty variant of update_cell: the value lands in column 0.
update_cell_stale(d, row_index, col_index, value) ==
    IF row_index >= Len(d)
    THEN [data |-> d, ret |-> InvalidRow(row_index)]
    ELSE IF col_index >= Len(d[row_index + 1])
    THEN [data |-> d, ret |-> InvalidCol(col_index)]
    ELSE [data |-> [d EXCEPT ![row_index + 1][1] = value], ret |-> Ok]

\* match data.get_mut(row_index) { Some(row) => match row.get_mut(col_index) ... }
update_cell(d, row_index, col_index, value) ==
    IF row_index >= Len(d)
    THEN [data |-> d, ret |-> InvalidRow(row_index)]
    ELSE IF col_index >= Len(d[row_index + 1])
    THEN [data |-> d, ret |-> InvalidCol(col_index)]
    ELSE [data |-> [d EXCEPT ![row_index + 1][col_index + 1] = value], ret |-> Ok]

\* The for loop of write_csv, having written i rows into text.
RECURSIVE write_loop(_, _, _, _)
write_loop(d, text, i, fail) ==
    IF i = Len(d) THEN [file |-> text, ret |-> Ok]
    ELSE IF fail = FailWrite(i) THEN [file |-> text, ret |-> IoError]
    ELSE write_loop(d, text \o join(d[i + 1]) \o <<"\n">>, i + 1, fail)

\* Faulty variant of write_csv: rows are written without line feeds between.
write_csv_no_newline(d, old, fail) ==
    IF fail = FailCreate THEN [file |-> old, ret |-> IoError]
    ELSE [file |-> join([i \in 1..Len(d) |-> join(d[i])]), ret |-> Ok]

\* File::create truncates; old is the content the path had before.
write_csv(d, old, fail) ==
    IF fail = FailCreate THEN [file |-> old, ret |-> IoError]
    ELSE write_loop(d, <<>>, 0, fail)

\* One println!("{}", line) per row.
Println(fmt, val) == [fmt |-> fmt, val |-> val]

display_csv(d) == [out |-> [i \in 1..Len(d) |-> Println("{}", join(d[i]))], ret |-> Ok]

\* ------------------------------------------------------------- state
VARIABLES
    data,     \* CSVParser.data: the rows of the table
    fs,       \* the text of the file at each path, NoFile where there is none
    stdout,   \* what was printed so far, one entry per println!
    call,     \* the operation called last, with its arguments
    ret,      \* what that call returned
    ncalls,   \* calls made so far
    pc        \* position in the running script

vars == <<data, fs, stdout, call, ret, ncalls, pc>>

\* The I/O failures a load of this file can meet.
ReadFails(file) ==
    {NoFail, FailOpen}
        \cup (IF file = NoFile THEN {} ELSE {FailRead(m) : m \in 0..Len(lines(file))})

\* The I/O failures a write of this table can meet.
WriteFails(d) == {NoFail, FailCreate} \cup {FailWrite(m) : m \in 0..(Len(d) - 1)}

InitFs(src) == [p \in Paths |-> IF p = SrcPath THEN src ELSE NoFile]

\* ------------------------------------------- the table, called freely
\* main.rs line 6: a new parser; the environment holds some source file.
Init ==
    /\ data = new
    /\ \E src \in Strs(MaxFileLen) \cup {NoFile} : fs = InitFs(src)
    /\ stdout = <<>>
    /\ call = [op |-> "new"]
    /\ ret = Ok
    /\ ncalls = 0
    /\ pc = "api"

ParseCsv(path, fail) ==
    /\ pc = "api"
    /\ ncalls < MaxCalls
    /\ LET res == parse_csv(data, fs[path], fail)
       IN /\ data' = res.data
          /\ ret' = res.ret
    /\ call' = [op |-> "parse_csv", path |-> path, fail |-> fail]
    /\ ncalls' = ncalls + 1
    /\ UNCHANGED <<fs, stdout, pc>>

GetRow(i) ==
    /\ pc = "api"
    /\ ncalls < MaxCalls
    /\ ret' = get_row(data, i)
    /\ call' = [op |-> "get_row", row_index |-> i]
    /\ ncalls' = ncalls + 1
    /\ UNCHANGED <<data, fs, stdout, pc>>

GetCell(r, c) ==
    /\ pc = "api"
    /\ ncalls < MaxCalls
    /\ ret' = get_cell(data, r, c)
    /\ call' = [op |-> "get_cell", row_index |-> r, col_index |-> c]
    /\ ncalls' = ncalls + 1
    /\ UNCHANGED <<data, fs, stdout, pc>>

UpdateCell(r, c, v) ==
    /\ pc = "api"
    /\ ncalls < MaxCalls
    /\ LET res == update_cell(data, r, c, v)
       IN /\ data' = res.data
          /\ ret' = res.ret
    /\ call' = [op |-> "update_cell", row_index |-> r, col_index |-> c, value |-> v]
    /\ ncalls' = ncalls + 1
    /\ UNCHANGED <<fs, stdout, pc>>

WriteCsv(path, fail) ==
    /\ pc = "api"
    /\ ncalls < MaxCalls
    /\ LET res == write_csv(data, fs[path], fail)
       IN /\ fs' = [fs EXCEPT ![path] = res.file]
          /\ ret' = res.ret
    /\ call' = [op |-> "write_csv", path |-> path, fail |-> fail]
    /\ ncalls' = ncalls + 1
    /\ UNCHANGED <<data, stdout, pc>>

DisplayCsv ==
    /\ pc = "api"
    /\ ncalls < MaxCalls
    /\ LET res == display_csv(data)
       IN /\ stdout' = stdout \o res.out
          /\ ret' = res.ret
    /\ call' = [op |-> "display_csv"]
    /\ ncalls' = ncalls + 1
    /\ UNCHANGED <<data, fs, pc>>

Next ==
    \/ \E path \in Paths : \E fail \in ReadFails(fs[path]) : ParseCsv(path, fail)
    \/ \E i \in 0..NumRows(data) : GetRow(i)
    \/ \E r \in 0..NumRows(data) : \E c \in 0..Width(data) : GetCell(r, c)
    \/ \E r \in 0..NumRows(data) : \E c \in 0..Width(data) : \E v \in Values :
           UpdateCell(r, c, v)
    \/ \E fail \in WriteFails(data) : WriteCsv(DestPath, fail)
    \/ DisplayCsv

Spec == Init /\ [][Next]_vars

\* ------------------------------------- CSVProcessor::process_csv (main)
\* The literal of process_csv's update_cell call.
UpdatedValue == <<"U", "p", "d", "a", "t", "e", "d", " ", "V", "a", "l", "u", "e">>

\* main: a new parser, handed to the processor; the environment holds some
\* file, or none, at the source path and none at the destination path.
InitDriver ==
    /\ data = new
    /\ \E src \in Strs(MaxSrcLen) \cup {ExampleFile, NoFile} : fs = InitFs(src)
    /\ stdout = <<>>
    /\ call = [op |-> "new"]
    /\ ret = Ok
    /\ ncalls = 0
    /\ pc = "parse_csv"

\* Faulty variant of After: the error is dropped and the script goes on.
After_ignores(res, next) == next

\* The ? operator: an Err ends process_csv, and with it the run.
After(res, next) == IF res.kind = "Err" THEN "done" ELSE next

StepParse(fail) ==
    /\ pc = "parse_csv"
    /\ LET res == parse_csv(data, fs[SrcPath], fail)
       IN /\ data' = res.data
          /\ ret' = res.ret
          /\ pc' = After(res.ret, "get_row")
    /\ call' = [op |-> "parse_csv", path |-> SrcPath, fail |-> fail]
    /\ ncalls' = ncalls + 1
    /\ UNCHANGED <<fs, stdout>>

StepGetRow ==
    /\ pc = "get_row"
    /\ LET res == get_row(data, 1)
       IN /\ ret' = res
          /\ stdout' = IF res.kind = "Some"
                       THEN Append(stdout, Println("Row 1: {:?}", res.val))
                       ELSE stdout
    /\ pc' = "get_cell"
    /\ call' = [op |-> "get_row", row_index |-> 1]
    /\ ncalls' = ncalls + 1
    /\ UNCHANGED <<data, fs>>

StepGetCell ==
    /\ pc = "get_cell"
    /\ LET res == get_cell(data, 2, 3)
       IN /\ ret' = res
          /\ stdout' = IF res.kind = "Some"
                       THEN Append(stdout, Println("Cell (2, 3): {}", res.val))
                       ELSE stdout
    /\ pc' = "update_cell"
    /\ call' = [op |-> "get_cell", row_index |-> 2, col_index |-> 3]
    /\ ncalls' = ncalls + 1
    /\ UNCHANGED <<data, fs>>

StepUpdateCell ==
    /\ pc = "update_cell"
    /\ LET res == update_cell(data, 2, 3, UpdatedValue)
       IN /\ data' = res.data
          /\ ret' = res.ret
          /\ pc' = After(res.ret, "write_csv")
    /\ call' = [op |-> "update_cell", row_index |-> 2, col_index |-> 3,
                value |-> UpdatedValue]
    /\ ncalls' = ncalls + 1
    /\ UNCHANGED <<fs, stdout>>

StepWrite(fail) ==
    /\ pc = "write_csv"
    /\ LET res == write_csv(data, fs[DestPath], fail)
       IN /\ fs' = [fs EXCEPT ![DestPath] = res.file]
          /\ ret' = res.ret
          /\ pc' = After(res.ret, "display_csv")
    /\ call' = [op |-> "write_csv", path |-> DestPath, fail |-> fail]
    /\ ncalls' = ncalls + 1
    /\ UNCHANGED <<data, stdout>>

StepDisplay ==
    /\ pc = "display_csv"
    /\ LET res == display_csv(data)
       IN /\ stdout' = stdout \o res.out
          /\ ret' = res.ret
    /\ pc' = "done"
    /\ call' = [op |-> "display_csv"]
    /\ ncalls' = ncalls + 1
    /\ UNCHANGED <<data, fs>>

NextDriver ==
    \/ \E fail \in ReadFails(fs[SrcPath]) : StepParse(fail)
    \/ StepGetRow
    \/ StepGetCell
    \/ StepUpdateCell
    \/ \E fail \in WriteFails(data) : StepWrite(fail)
    \/ StepDisplay

SpecDriver == InitDriver /\ [][NextDriver]_vars

\* ------------------------------------------ load, then display
\* A new table, a source file that exists; the file is loaded and the
\* table displayed.
InitRoundTrip ==
    /\ data = new
    /\ \E src \in Strs(MaxSrcLen) : fs = InitFs(src)
    /\ stdout = <<>>
    /\ call = [op |-> "new"]
    /\ ret = Ok
    /\ ncalls = 0
    /\ pc = "load"

LoadSource(fail) ==
    /\ pc = "load"
    /\ LET res == parse_csv(data, fs[SrcPath], fail)
       IN /\ data' = res.data
          /\ ret' = res.ret
          /\ pc' = After(res.ret, "display")
    /\ call' = [op |-> "parse_csv", path |-> SrcPath, fail |-> fail]
    /\ ncalls' = ncalls + 1
    /\ UNCHANGED <<fs, stdout>>

DisplayLoaded ==
    /\ pc = "display"
    /\ LET res == display_csv(data)
       IN /\ stdout' = stdout \o res.out
          /\ ret' = res.ret
    /\ pc' = "done"
    /\ call' = [op |-> "display_csv"]
    /\ ncalls' = ncalls + 1
    /\ UNCHANGED <<data, fs>>

NextRoundTrip ==
    \/ \E fail \in ReadFails(fs[SrcPath]) : LoadSource(fail)
    \/ DisplayLoaded

SpecRoundTrip == InitRoundTrip /\ [][NextRoundTrip]_vars

\* ============================================================ claims
InBounds(d, r, c) == r < Len(d) /\ c < Len(d[r + 1])

\* Number of lines of a text, counted from its line feeds alone.
LineCount(text) ==
    Cardinality({i \in 1..Len(text) : text[i] = "\n"})
        + (IF text # <<>> /\ text[Len(text)] # "\n" THEN 1 ELSE 0)

CellsWith(d, ch) ==
    {<<i, j>> \in (1..Len(d)) \X (1..Width(d)) : j <= Len(d[i]) /\ HasChar(d[i][j], ch)}

\* C1: update_cell at an in-bounds position succeeds for whatever value,
\* and a get_cell of the same position called right after a successful
\* update_cell returns exactly the value written.
C1_UpdateThenGet ==
    [][/\ (call'.op = "update_cell"
             /\ InBounds(data, call'.row_index, call'.col_index))
          => ret' = Ok
       /\ (call.op = "update_cell" /\ ret = Ok
             /\ call'.op = "get_cell"
             /\ call'.row_index = call.row_index
             /\ call'.col_index = call.col_index)
          => ret' = Some(call.value)]_vars

\* A get_cell has returned a value holding a comma: only update_cell can
\* have put it there, parse_csv never stores a comma.
C1_Witness ==
    /\ pc = "api"
    /\ call.op = "get_cell"
    /\ ret.kind = "Some"
    /\ HasChar(ret.val, ",")

\* C2: update_cell returns the row error whenever the row index is out of
\* bounds, whatever the column; the column error exactly when the row is in
\* bounds and the column is not; success exactly when both are in bounds.
C2_UpdateErrors ==
    [][call'.op = "update_cell" =>
        LET r == call'.row_index
            c == call'.col_index
        IN /\ (r >= Len(data)) => (ret' = InvalidRow(r))
           /\ (ret' = InvalidCol(c)) <=> (r < Len(data) /\ c >= Len(data[r + 1]))
           /\ (ret' = Ok) <=> InBounds(data, r, c)
           /\ InvalidRow(r) # InvalidCol(c)]_vars

\* Both indices were invalid on a table that has rows, and the row error
\* came back.
C2_Witness ==
    /\ pc = "api"
    /\ call.op = "update_cell"
    /\ data # <<>>
    /\ call.row_index >= Len(data)
    /\ call.col_index >= Width(data)
    /\ ret = InvalidRow(call.row_index)

\* C3: get_cell returns None exactly when the row index is out of bounds or
\* the column index is out of bounds for that row, and otherwise the string
\* stored at that position; the column is checked against its own row.
C3_GetCell ==
    (pc = "api" /\ call.op = "get_cell") =>
        LET r == call.row_index
            c == call.col_index
        IN /\ (ret = None) <=> (r >= Len(data) \/ c >= Len(data[r + 1]))
           /\ InBounds(data, r, c) => ret = Some(data[r + 1][c + 1])

\* A column that exists in a longer row was asked of a shorter row.
C3_Witness ==
    /\ pc = "api"
    /\ call.op = "get_cell"
    /\ call.row_index < Len(data)
    /\ call.col_index >= Len(data[call.row_index + 1])
    /\ call.col_index < Width(data)
    /\ ret = None

\* C4: get_row returns None exactly when the index is at least the number
\* of rows, and otherwise the row at that zero-based position, whole.
C4_GetRow ==
    (pc = "api" /\ call.op = "get_row") =>
        LET i == call.row_index
        IN /\ (ret = None) <=> (i >= Len(data))
           /\ (i < Len(data)) => ret = Some(data[i + 1])

\* The last row of a table of several different rows was returned.
C4_Witness ==
    /\ pc = "api"
    /\ call.op = "get_row"
    /\ Len(data) >= 2
    /\ call.row_index = Len(data) - 1
    /\ data[1] # data[Len(data)]
    /\ ret.kind = "Some"

\* The rows a complete load of this text appends.
RowsOf(text) == [i \in 1..Len(lines(text)) |-> split(lines(text)[i])]

\* C5: a successful parse_csv of a file of n lines on a table of k rows
\* leaves k + n rows: the k earlier rows as they were, then one row per
\* line in file order, each the line split on commas; an empty file adds
\* no row.
C5_LoadAppends ==
    [][(call'.op = "parse_csv" /\ ret' = Ok) =>
        LET text == fs[call'.path]
        IN /\ Len(data') = Len(data) + LineCount(text)
           /\ SubSeq(data', 1, Len(data)) = data
           /\ SubSeq(data', Len(data) + 1, Len(data')) = RowsOf(text)
           /\ (text = <<>>) => (data' = data)]_vars

\* The third call was a successful load of a non-empty file on a table
\* that already held rows, one of them edited to hold a comma.
C5_Witness ==
    /\ pc = "api"
    /\ call.op = "parse_csv"
    /\ ret = Ok
    /\ LineCount(fs[call.path]) >= 1
    /\ Len(data) > LineCount(fs[call.path])
    /\ CellsWith(data, ",") # {}

\* C6: a file loaded into a new table and then displayed comes out line for
\* line: one println per line of the file, in file order, each printing the
\* text of its line (without the line's terminator).
C6_LoadDisplayRoundTrip ==
    (pc = "done" /\ call.op = "display_csv") =>
        LET text == fs[SrcPath]
        IN /\ Len(stdout) = LineCount(text)
           /\ stdout = [i \in 1..Len(lines(text)) |-> Println("{}", lines(text)[i])]

\* A file of several lines, one of them with an empty field next to a
\* comma, was loaded and displayed.
C6_Witness ==
    /\ pc = "done"
    /\ call.op = "display_csv"
    /\ Len(stdout) >= 2
    /\ \E i \in 1..Len(stdout) :
           /\ HasChar(stdout[i].val, ",")
           /\ stdout[i].val[Len(stdout[i].val)] = ","

\* What stands in row 1 of the 3x3 scenario.
ExampleRow1 == <<<<"d">>, <<"e">>, <<"f">>>>

\* C7: process_csv calls parse_csv, get_row(1), get_cell(2, 3),
\* update_cell(2, 3, "Updated Value"), write_csv, display_csv in this order;
\* a call that returns an error is the last one; the destination file is
\* written and the table displayed only if row 2 has at least 4 cells and
\* update_cell succeeded; on the 3x3 scenario file the run prints row 1,
\* prints no cell, ends with the column error, writes no file and displays
\* nothing.
C7_DriverOrder ==
    /\ (ncalls = 0) <=> (call.op = "new")
    /\ (ncalls = 1) <=> (call.op = "parse_csv")
    /\ (ncalls = 2) <=> (call.op = "get_row")
    /\ (ncalls = 3) <=> (call.op = "get_cell")
    /\ (ncalls = 4) <=> (call.op = "update_cell")
    /\ (ncalls = 5) <=> (call.op = "write_csv")
    /\ (ncalls = 6) <=> (call.op = "display_csv")
    /\ ncalls <= 6
    /\ (call.op = "parse_csv") => (call.path = SrcPath)
    /\ (call.op = "get_row") => (call.row_index = 1)
    /\ (call.op = "get_cell") => (call.row_index = 2 /\ call.col_index = 3)
    /\ (call.op = "update_cell") =>
           (call.row_index = 2 /\ call.col_index = 3 /\ call.value = UpdatedValue)
    /\ (call.op = "write_csv") => (call.path = DestPath)
    /\ (ret.kind = "Err") => (pc = "done")
    /\ (pc = "done") => (ret.kind = "Err" \/ call.op = "display_csv")
    /\ (call.op \in {"write_csv", "display_csv"} \/ fs[DestPath] # NoFile
            \/ \E i \in 1..Len(stdout) : stdout[i].fmt = "{}") =>
           /\ Len(data) >= 3
           /\ Len(data[3]) >= 4
           /\ data[3][4] = UpdatedValue
    /\ (pc = "done" /\ fs[SrcPath] = ExampleFile) =>
           \/ call.op = "parse_csv" /\ ret = IoError
           \/ /\ call.op = "update_cell"
              /\ ret = InvalidCol(3)
              /\ stdout = <<Println("Row 1: {:?}", ExampleRow1)>>
              /\ fs[DestPath] = NoFile

\* The run on the 3x3 scenario file has ended with the column error.
C7_Witness ==
    /\ pc = "done"
    /\ fs[SrcPath] = ExampleFile
    /\ call.op = "update_cell"
    /\ ret = InvalidCol(3)
    /\ Len(stdout) = 1

\* C8: a parse_csv whose read fails after m lines were consumed returns an
\* I/O error and leaves the earlier rows followed by the rows of those m
\* lines; a parse_csv whose file cannot be opened returns an I/O error and
\* leaves the table as it was.
C8_LoadFailure ==
    [][call'.op = "parse_csv" =>
        LET text == fs[call'.path]
            fail == call'.fail
        IN /\ (text = NoFile \/ fail = FailOpen) =>
                 (ret' = IoError /\ data' = data)
           /\ (text # NoFile /\ Len(fail) = 2) =>
                 /\ ret' = IoError
                 /\ data' = data \o SubSeq(RowsOf(text), 1, fail[2])]_vars

\* A read failed after at least one line, on a table that held rows before,
\* with lines still unread.
C8_Witness ==
    /\ pc = "api"
    /\ call.op = "parse_csv"
    /\ ret = IoError
    /\ Len(call.fail) = 2
    /\ call.fail[2] >= 1
    /\ call.fail[2] < LineCount(fs[call.path])
    /\ Len(data) > call.fail[2]

\* C9: update_cell changes at most one cell: on an error the table is as
\* before, on success the number of rows, the length of every row and every
\* cell but the addressed one are as before; get_row, get_cell, write_csv
\* and display_csv leave the table as it was.
C9_Frame ==
    [][/\ (call'.op = "update_cell" /\ ret'.kind = "Err") => (data' = data)
       /\ (call'.op = "update_cell" /\ ret' = Ok) =>
             /\ Len(data') = Len(data)
             /\ \A i \in 1..Len(data) :
                   /\ Len(data'[i]) = Len(data[i])
                   /\ \A j \in 1..Len(data[i]) :
                         (<<i, j>> # <<call'.row_index + 1, call'.col_index + 1>>)
                             => data'[i][j] = data[i][j]
       /\ (call'.op \in {"get_row", "get_cell", "write_csv", "display_csv"})
             => (data' = data)]_vars

\* A column error came back from an update on an existing row of a table
\* of several cells.
C9_Witness ==
    /\ pc = "api"
    /\ call.op = "update_cell"
    /\ call.row_index < Len(data)
    /\ ret = InvalidCol(call.col_index)
    /\ Width(data) >= 2

\* The text write_csv is to produce: each row joined with commas and ended
\* by a line feed, in row order.
RECURSIVE TextOf(_)
TextOf(d) == IF d = <<>> THEN <<>>
             ELSE TextOf(SubSeq(d, 1, Len(d) - 1)) \o join(d[Len(d)]) \o <<"\n">>

\* The table a new parser holds after loading the text.
Reloaded(text) == parse_csv(new, text, NoFail).data

CommasIn(row) ==
    Cardinality({<<j, k>> \in (1..Len(row)) \X (1..Len(join(row))) :
                    k <= Len(row[j]) /\ row[j][k] = ","})

LastCellEndsWithCR(row) ==
    /\ row # <<>>
    /\ row[Len(row)] # <<>>
    /\ row[Len(row)][Len(row[Len(row)])] = "\r"

====
